---- MODULE Spec2Model ----
(***************************************************************************)
(* Model of butcher.py: the conversion of a Butcher tableau given as       *)
(* fractions into integers over one common denominator.                    *)
(*                                                                         *)
(* Three groups of state:                                                  *)
(*   - the interactive session of the __main__ block (state, s, A, b, c,   *)
(*     emitted, divisorLine, raised, lastPrinted);                         *)
(*   - one call of gcd and lcm on an argument tuple (args, gcdOut, lcmOut);*)
(*   - one call of parseA / parseB / parseC (numStages, text, parseOut).   *)
(* Each specification drives one group and leaves the others idle.         *)
(*                                                                         *)
(* Representation of text.  A text is held as the list that                *)
(* text.split(",") returns, each element of it as the list that            *)
(* token.split("/") returns, and each piece of that as its sequence of     *)
(* characters.  str.split maps the strings one-to-one onto the non-empty   *)
(* lists of separator-free strings, so nothing is lost: the empty text is  *)
(* <<<< <<>> >>>>, one token made of one empty piece.                      *)
(***************************************************************************)
EXTENDS Integers, Sequences, FiniteSets, TLC

VARIABLES state, s, A, b, c, emitted, divisorLine, raised, lastPrinted,
          args, gcdOut, lcmOut,
          numStages, text, parseOut

sessionVars == <<state, s, A, b, c, emitted, divisorLine, raised, lastPrinted>>
arithVars == <<args, gcdOut, lcmOut>>
parseVars == <<numStages, text, parseOut>>
vars == <<sessionVars, arithVars, parseVars>>

(***************************************************************************)
(* Bounds of the model.                                                    *)
(***************************************************************************)
\* longest text typed at the prompt for A or passed to a parser, in tokens
MaxTokens == 4
\* longest text typed at the prompts for b and c, in tokens
MaxVectorTokens == 3
\* largest stage count typed at the first prompt
MaxStages == 2
\* longest argument tuple of a gcd / lcm call
MaxArgs == 3
\* gcd / lcm arguments range over -MaxAbs .. MaxAbs
MaxAbs == 3

(***************************************************************************)
(* Python integer arithmetic.                                              *)
(***************************************************************************)
Abs(x) == IF x < 0 THEN -x ELSE x

\* a // b for b # 0: the floor of the quotient
PyFloorDiv(x, y) == x \div y

\* a % b for b # 0: the remainder takes the sign of the divisor
PyMod(x, y) == x - y * PyFloorDiv(x, y)

(***************************************************************************)
(* gcd, butcher.py lines 60-77: the variadic greatest common divisor.      *)
(***************************************************************************)
\* the loop "while b != 0: a, b = b, a % b"; yields the final a
RECURSIVE GcdWhile(_, _)
GcdWhile(x, y) == IF y = 0 THEN x ELSE GcdWhile(y, PyMod(x, y))

\* one pass of the for loop with the accumulator a already bound:
\*   b = abs(x); if a < b: a, b = x, a; while ...
GcdBody(acc, x) ==
    LET y == Abs(x)
    IN  IF acc < y THEN GcdWhile(x, acc) ELSE GcdWhile(acc, y)

RECURSIVE GcdFrom(_, _, _)
GcdFrom(numbers, i, acc) ==
    IF i > Len(numbers) THEN acc
    ELSE GcdFrom(numbers, i + 1, GcdBody(acc, numbers[i]))

\* "a is None" holds exactly in the first pass, which sets a = abs(x) before
\* the body runs; with no pass at all the result is 1
gcd(numbers) ==
    IF Len(numbers) = 0 THEN 1
    ELSE GcdFrom(numbers, 1, Abs(numbers[1]))

(***************************************************************************)
(* lcm, butcher.py lines 79-93.  A result is a record: fault               *)
(* tells that the call ended in ZeroDivisionError, val is the value        *)
(* returned otherwise.                                                     *)
(***************************************************************************)
Returned(v) == [fault |-> FALSE, val |-> v]
ZeroDivision == [fault |-> TRUE, val |-> 0]

\* lcm with the quotient of the two replaced by their gcd
LcmBodyAsGcd(acc, n) ==
    LET divisor == gcd(<<acc, n>>)
    IN  IF divisor = 0 THEN ZeroDivision ELSE Returned(divisor)

\* one pass of the for loop with lcm already bound:
\*   product = lcm * n; lcm = product // gcd(lcm, n)
LcmBody(acc, n) ==
    LET product == acc * n
        divisor == gcd(<<acc, n>>)
    IN  IF divisor = 0 THEN ZeroDivision
        ELSE Returned(PyFloorDiv(product, divisor))

RECURSIVE LcmFrom(_, _, _)
LcmFrom(numbers, i, acc) ==
    IF i > Len(numbers) THEN Returned(acc)
    ELSE LET r == LcmBody(acc, numbers[i])
         IN  IF r.fault THEN r ELSE LcmFrom(numbers, i + 1, r.val)

\* "lcm is None" holds exactly in the first pass, which sets lcm = n before
\* the body runs; with no pass at all the result is 1
lcm(numbers) ==
    IF Len(numbers) = 0 THEN Returned(1)
    ELSE LcmFrom(numbers, 1, numbers[1])

(***************************************************************************)
(* One call of gcd and one of lcm on an argument tuple.  An output is <<>> *)
(* until the call has been made, then a one-element tuple.                 *)
(***************************************************************************)
ArgValues == (-MaxAbs) .. MaxAbs
ArgTuples == UNION {[1 .. n -> ArgValues] : n \in 0 .. MaxArgs}

ArithIdle == args = <<>> /\ gcdOut = <<>> /\ lcmOut = <<>>

CallGcd ==
    /\ gcdOut = <<>>
    /\ gcdOut' = <<gcd(args)>>
    /\ UNCHANGED <<args, lcmOut, sessionVars, parseVars>>

CallLcm ==
    /\ lcmOut = <<>>
    /\ lcmOut' = <<lcm(args)>>
    /\ UNCHANGED <<args, gcdOut, sessionVars, parseVars>>

(***************************************************************************)
(* Text.  Characters are one-character strings; the model's texts are      *)
(* written with digits, "-" and the letter "x" (and, through the list      *)
(* representation, "," and "/").                                           *)
(***************************************************************************)
Digits == <<"0", "1", "2", "3", "4", "5", "6", "7", "8", "9">>

\* the value of each digit character
DigitValue == [ch \in {Digits[k] : k \in 1 .. Len(Digits)} |->
                  (CHOOSE k \in 1 .. Len(Digits) : Digits[k] = ch) - 1]

IsDigit(ch) == ch \in DOMAIN DigitValue

RECURSIVE DigitsValue(_)
DigitsValue(ds) ==
    IF Len(ds) = 0 THEN 0
    ELSE 10 * DigitsValue(SubSeq(ds, 1, Len(ds) - 1)) + DigitValue[ds[Len(ds)]]

\* the digits of a literal, after an optional leading "-"
Unsigned(piece) ==
    IF Len(piece) > 0 /\ piece[1] = "-" THEN Tail(piece) ELSE piece

\* int(x) on a string without "," and "/": an optional "-" and at least one
\* digit; anything else raises ValueError (ok = FALSE)
IntOfPiece(piece) ==
    LET ds == Unsigned(piece)
    IN  IF Len(ds) > 0 /\ \A k \in 1 .. Len(ds) : IsDigit(ds[k])
        THEN [ok |-> TRUE,
              val |-> IF ds = piece THEN DigitsValue(ds) ELSE -DigitsValue(ds)]
        ELSE [ok |-> FALSE, val |-> 0]

\* int(x) on a whole text: a "," or a "/" in it is no part of an integer
PyInt(t) ==
    IF Len(t) = 1 /\ Len(t[1]) = 1 THEN IntOfPiece(t[1][1])
    ELSE [ok |-> FALSE, val |-> 0]

(***************************************************************************)
(* The parsers, butcher.py lines 21-58.  A result is a record: ok = FALSE  *)
(* tells that ParseError was raised, with its message in error.            *)
(***************************************************************************)
MsgFraction == "Could not parse {f} as fraction!"
MsgShapeA == "The matrix A must have shape {s}x{s}!"
MsgCountB == "There must be exactly {s} coefficients b_j!"
MsgCountC == "There must be exactly {s} coefficients c_j!"

Parsed(v) == [ok |-> TRUE, val |-> v, error |-> ""]
ParseError(msg) == [ok |-> FALSE, val |-> <<>>, error |-> msg]

\* parseFraction: every ValueError (a piece that is no integer, more than
\* two pieces) is turned into ParseError by the bare except
parseFraction(f) ==
    LET parts == [k \in 1 .. Len(f) |-> IntOfPiece(f[k])]
    IN  IF \E k \in 1 .. Len(f) : ~parts[k].ok THEN ParseError(MsgFraction)
        ELSE IF Len(f) = 1 THEN Parsed(<<parts[1].val, 1>>)
        ELSE IF Len(f) = 2 THEN Parsed(<<parts[1].val, parts[2].val>>)
        ELSE ParseError(MsgFraction)

\* parseMatrix: the first token parseFraction rejects ends it
parseMatrix(t) ==
    LET fs == [k \in 1 .. Len(t) |-> parseFraction(t[k])]
    IN  IF \E k \in 1 .. Len(t) : ~fs[k].ok THEN ParseError(MsgFraction)
        ELSE Parsed([k \in 1 .. Len(t) |-> fs[k].val])

\* [m[i : i + n] for i in range(0, len(m), n)]: range is empty for n < 0
\* (n = 0 never gets here: a text has at least one token)
Rows(m, n) ==
    IF n > 0
    THEN [k \in 1 .. ((Len(m) + n - 1) \div n) |->
             SubSeq(m, (k - 1) * n + 1, IF k * n < Len(m) THEN k * n ELSE Len(m))]
    ELSE <<>>

\* parseA without the check of the number of fractions
parseAAnyCount(n, t) ==
    LET m == parseMatrix(t)
    IN  IF ~m.ok THEN m ELSE Parsed(Rows(m.val, n))

parseA(n, t) ==
    LET m == parseMatrix(t)
    IN  IF ~m.ok THEN m
        ELSE IF Len(m.val) # n * n THEN ParseError(MsgShapeA)
        ELSE Parsed(Rows(m.val, n))

\* parseB without the check of the number of fractions
parseBAnyCount(n, t) == parseMatrix(t)

parseB(n, t) ==
    LET m == parseMatrix(t)
    IN  IF ~m.ok THEN m
        ELSE IF Len(m.val) # n THEN ParseError(MsgCountB)
        ELSE m

parseC(n, t) ==
    LET m == parseMatrix(t)
    IN  IF ~m.ok THEN m
        ELSE IF Len(m.val) # n THEN ParseError(MsgCountC)
        ELSE m

(***************************************************************************)
(* Texts of the model.                                                     *)
(***************************************************************************)
\* the literal of an integer of one digit
IntPiece(k) == IF k < 0 THEN <<"-", Digits[1 - k]>> ELSE <<Digits[k + 1]>>

Tok1(n) == <<IntPiece(n)>>
Tok2(n, den) == <<IntPiece(n), IntPiece(den)>>
Tok3(n, den, e) == <<IntPiece(n), IntPiece(den), IntPiece(e)>>
Junk == <<<<"x">>>>

TextsOver(tokens, longest) == UNION {[1 .. n -> tokens] : n \in 1 .. longest}

(***************************************************************************)
(* One call of parseA, parseB or parseC.  parseOut is <<>> until the call  *)
(* has been made, then <<[fn, res]>>.                                      *)
(***************************************************************************)
ParseTexts == TextsOver({Tok1(1), Tok2(1, 2), Junk, Tok3(1, 2, 3)}, MaxTokens)
ParseStages == (-MaxStages) .. MaxStages

ParseIdle == numStages = 0 /\ text = <<>> /\ parseOut = <<>>

CallParseA ==
    /\ parseOut = <<>>
    /\ parseOut' = <<[fn |-> "parseA", res |-> parseA(numStages, text)]>>
    /\ UNCHANGED <<numStages, text, sessionVars, arithVars>>

CallParseB ==
    /\ parseOut = <<>>
    /\ parseOut' = <<[fn |-> "parseB", res |-> parseB(numStages, text)]>>
    /\ UNCHANGED <<numStages, text, sessionVars, arithVars>>

CallParseC ==
    /\ parseOut = <<>>
    /\ parseOut' = <<[fn |-> "parseC", res |-> parseC(numStages, text)]>>
    /\ UNCHANGED <<numStages, text, sessionVars, arithVars>>

(***************************************************************************)
(* The __main__ block, butcher.py lines 104-121, as a session.             *)
(*                                                                         *)
(* state        where the script is: at one of the four obtain() calls     *)
(*              (AwaitStageCount, AwaitMatrixA, AwaitVectorB,              *)
(*              AwaitVectorC), before line 112 (ScaleEmit), finished       *)
(*              (Done), or ended by an uncaught exception (Aborted)        *)
(* s, A, b, c   the script's variables; a name not yet bound is held as 0  *)
(*              (s) or <<>> (A, b, c), and state tells which are bound     *)
(* emitted      the integers printed on the "Butcher array = " line        *)
(* divisorLine  <<cd>> once "Divisor: cd" has been printed, <<>> before    *)
(* raised       the exception that ended the script, "" if none            *)
(* lastPrinted  what obtain() printed for the latest input: the message    *)
(*              of the ParseError it caught, "" if the input was accepted  *)
(***************************************************************************)
AwaitStates == {"AwaitStageCount", "AwaitMatrixA", "AwaitVectorB", "AwaitVectorC"}

\* d(fraction)
d(fraction) == fraction[2]

RECURSIVE Chain(_)
\* itertools.chain(*rows)
Chain(rows) == IF Len(rows) = 0 THEN <<>> ELSE Head(rows) \o Chain(Tail(rows))

\* row[0:i]
Slice0(row, i) == SubSeq(row, 1, IF i < Len(row) THEN i ELSE Len(row))

\* lowerLeft with the counter started at 0: row number i yields row[0:i-1]
lowerLeftStrict(matrix) == [i \in 1 .. Len(matrix) |-> Slice0(matrix[i], i - 1)]

\* lowerLeft: row number i, counted from 1, yields row[0:i]
lowerLeft(matrix) == [i \in 1 .. Len(matrix) |-> Slice0(matrix[i], i)]

\* the denominators of b and of c only
DenominatorsOfVectors(mA, vb, vc) ==
    LET all == vb \o vc
    IN  [k \in 1 .. Len(all) |-> d(all[k])]

\* line 112: the denominators of b, of c and of every row of A, in this order
Denominators(mA, vb, vc) ==
    LET all == vb \o vc \o Chain(mA)
    IN  [k \in 1 .. Len(all) |-> d(all[k])]

\* the loop run over every entry of A
EmitOrderFullRows(mA, vb, vc) == Chain(mA) \o vb \o vc

\* line 116: the fractions the loop runs over
EmitOrder(mA, vb, vc) == Chain(lowerLeft(mA)) \o vb \o vc

\* lines 116-118 from the k-th fraction on: str(n * (cd // d)) is printed,
\* or cd // d raises ZeroDivisionError and what was printed before stays
RECURSIVE EmitLoop(_, _, _, _)
EmitLoop(order, cd, k, out) ==
    IF k > Len(order) THEN [fault |-> FALSE, out |-> out]
    ELSE IF order[k][2] = 0 THEN [fault |-> TRUE, out |-> out]
    ELSE EmitLoop(order, cd, k + 1,
                  Append(out, order[k][1] * PyFloorDiv(cd, order[k][2])))

Init ==
    /\ state = "AwaitStageCount"
    /\ s = 0 /\ A = <<>> /\ b = <<>> /\ c = <<>>
    /\ emitted = <<>> /\ divisorLine = <<>>
    /\ raised = "" /\ lastPrinted = ""
    /\ ArithIdle /\ ParseIdle

\* line 106: obtain(..., int).  int raises ValueError, which obtain does not
\* catch (it catches ParseError only)
EnterStageCount(typed) ==
    /\ state = "AwaitStageCount"
    /\ \E t \in typed :
          LET r == PyInt(t)
          IN  IF r.ok
              THEN /\ s' = r.val
                   /\ state' = "AwaitMatrixA"
                   /\ lastPrinted' = ""
                   /\ UNCHANGED raised
              ELSE /\ state' = "Aborted"
                   /\ raised' = "ValueError"
                   /\ UNCHANGED <<s, lastPrinted>>
    /\ UNCHANGED <<A, b, c, emitted, divisorLine, arithVars, parseVars>>

\* line 108: obtain(..., lambda i : parseA(s, i))
EnterMatrixA(typed) ==
    /\ state = "AwaitMatrixA"
    /\ \E t \in typed :
          LET r == parseA(s, t)
          IN  IF r.ok
              THEN /\ A' = r.val
                   /\ state' = "AwaitVectorB"
                   /\ lastPrinted' = ""
              ELSE /\ lastPrinted' = r.error
                   /\ UNCHANGED <<A, state>>
    /\ UNCHANGED <<s, b, c, emitted, divisorLine, raised, arithVars, parseVars>>

\* line 109: obtain(..., lambda i : parseB(s, i))
EnterVectorB(typed) ==
    /\ state = "AwaitVectorB"
    /\ \E t \in typed :
          LET r == parseB(s, t)
          IN  IF r.ok
              THEN /\ b' = r.val
                   /\ state' = "AwaitVectorC"
                   /\ lastPrinted' = ""
              ELSE /\ lastPrinted' = r.error
                   /\ UNCHANGED <<b, state>>
    /\ UNCHANGED <<s, A, c, emitted, divisorLine, raised, arithVars, parseVars>>

\* line 110: obtain(..., lambda i : parseC(s, i))
EnterVectorC(typed) ==
    /\ state = "AwaitVectorC"
    /\ \E t \in typed :
          LET r == parseC(s, t)
          IN  IF r.ok
              THEN /\ c' = r.val
                   /\ state' = "ScaleEmit"
                   /\ lastPrinted' = ""
              ELSE /\ lastPrinted' = r.error
                   /\ UNCHANGED <<c, state>>
    /\ UNCHANGED <<s, A, b, emitted, divisorLine, raised, arithVars, parseVars>>

\* lines 112-121
ScaleAndEmit ==
    /\ state = "ScaleEmit"
    /\ LET cd == lcm(Denominators(A, b, c))
           run == EmitLoop(EmitOrder(A, b, c), cd.val, 1, <<>>)
       IN  IF cd.fault
           THEN /\ state' = "Aborted"
                /\ raised' = "ZeroDivisionError"
                /\ UNCHANGED <<emitted, divisorLine>>
           ELSE IF run.fault
           THEN /\ state' = "Aborted"
                /\ raised' = "ZeroDivisionError"
                /\ emitted' = run.out
                /\ UNCHANGED divisorLine
           ELSE /\ state' = "Done"
                /\ emitted' = run.out
                /\ divisorLine' = <<cd.val>>
                /\ UNCHANGED raised
    /\ UNCHANGED <<s, A, b, c, lastPrinted, arithVars, parseVars>>

(***************************************************************************)
(* Specifications.                                                         *)
(***************************************************************************)
\* what is typed at the stage-count prompt
StageTexts == {<<Tok1(k)>> : k \in (-1) .. MaxStages} \cup {<<Junk>>, <<Tok2(1, 2)>>}

\* what is typed at the other prompts: every text of up to so many of the
\* given tokens, and one text that is no fraction
Typed(tokens, longest) == TextsOver(tokens, longest) \cup {<<Junk>>}

PlainTokens == {Tok1(0), Tok1(1), Tok2(1, 2)}
PlainMatrixTexts == Typed(PlainTokens, MaxTokens)
PlainVectorTexts == Typed(PlainTokens, MaxVectorTokens)

EdgeTokens == {Tok2(1, 0), Tok2(1, -2), Tok2(2, 3)}
EdgeMatrixTexts == Typed(EdgeTokens, MaxTokens)
EdgeVectorTexts == Typed(EdgeTokens, MaxVectorTokens)

Next ==
    \/ EnterStageCount(StageTexts)
    \/ EnterMatrixA(PlainMatrixTexts)
    \/ EnterVectorB(PlainVectorTexts)
    \/ EnterVectorC(PlainVectorTexts)
    \/ ScaleAndEmit

\* the session over tableaus of the fractions 0, 1 and 1/2
Spec == Init /\ [][Next]_vars

NextEdge ==
    \/ EnterStageCount(StageTexts)
    \/ EnterMatrixA(EdgeMatrixTexts)
    \/ EnterVectorB(EdgeVectorTexts)
    \/ EnterVectorC(EdgeVectorTexts)
    \/ ScaleAndEmit

\* the session over tableaus of the fractions 1/0, 1/-2 and 2/3
SpecEdge == Init /\ [][NextEdge]_vars

SessionIdle ==
    /\ state = "Idle"
    /\ s = 0 /\ A = <<>> /\ b = <<>> /\ c = <<>>
    /\ emitted = <<>> /\ divisorLine = <<>>
    /\ raised = "" /\ lastPrinted = ""

InitArith ==
    /\ args \in ArgTuples
    /\ gcdOut = <<>> /\ lcmOut = <<>>
    /\ SessionIdle /\ ParseIdle

NextArith == CallGcd \/ CallLcm

\* gcd and lcm called on every argument tuple within the bounds
SpecArith == InitArith /\ [][NextArith]_vars

InitParse ==
    /\ numStages \in ParseStages
    /\ text \in ParseTexts
    /\ parseOut = <<>>
    /\ SessionIdle /\ ArithIdle

NextParse == CallParseA \/ CallParseB \/ CallParseC

\* parseA, parseB and parseC called on every stage count and text within the
\* bounds
SpecParse == InitParse /\ [][NextParse]_vars

(***************************************************************************)
(* Properties.                                                             *)
(***************************************************************************)
\* lines 112-121 have run: to the end, or to a ZeroDivisionError
Ran == state = "Done" \/ (state = "Aborted" /\ raised = "ZeroDivisionError")

\* every fraction of the tableau: b, c, then A row after row
Fractions == b \o c \o Chain(A)

AllDenominatorsNonZero == \A k \in 1 .. Len(Fractions) : Fractions[k][2] # 0

\* the region of the tableau the output is to hold, written out by index:
\* A[i][j] for j <= i row after row, then b, then c
TriangleIndices == {<<i, j>> \in (1 .. Len(A)) \X (1 .. Len(A)) : j <= i}
TriangleSize == (Len(A) * (Len(A) + 1)) \div 2
TriangleAt(k) ==
    CHOOSE ij \in TriangleIndices : ((ij[1] - 1) * ij[1]) \div 2 + ij[2] = k
ExpectedOrder ==
    [k \in 1 .. (TriangleSize + Len(b) + Len(c)) |->
        IF k <= TriangleSize THEN A[TriangleAt(k)[1]][TriangleAt(k)[2]]
        ELSE IF k <= TriangleSize + Len(b) THEN b[k - TriangleSize]
        ELSE c[k - TriangleSize - Len(b)]]

\* C1: exact scaling.  For a tableau whose denominators are all non-zero
\* (negative ones included), lines 112-121 run to the end, the printed
\* divisor cd is a multiple of the denominator d of every fraction (n, d) of
\* b, c and A (cd % d == 0), the scaled integer n * (cd // d) times d equals
\* n * cd, and each printed integer is the scaled integer of its fraction.
C1_ExactScaling ==
    (Ran /\ AllDenominatorsNonZero) =>
        /\ state = "Done"
        /\ \A k \in 1 .. Len(Fractions) :
              LET n == Fractions[k][1]
                  den == Fractions[k][2]
                  cd == divisorLine[1]
              IN  /\ PyMod(cd, den) = 0
                  /\ (n * PyFloorDiv(cd, den)) * den = n * cd
        /\ Len(emitted) = Len(ExpectedOrder)
        /\ \A k \in 1 .. Len(emitted) :
              emitted[k] * ExpectedOrder[k][2] = ExpectedOrder[k][1] * divisorLine[1]

\* a two-stage tableau with a negative denominator and two denominators
\* that are coprime has been scaled
C1_Witness ==
    /\ state = "Done" /\ s = 2
    /\ \E k \in 1 .. Len(Fractions) : Fractions[k][2] < 0
    /\ Abs(divisorLine[1]) = 6

\* C4: the common denominator is positive.  For a tableau whose
\* denominators are all non-zero, the divisor printed is a positive integer.
C4_DivisorPositive ==
    (Ran /\ AllDenominatorsNonZero) => (state = "Done" /\ divisorLine[1] > 0)

\* C6 as claimed: a zero denominator anywhere in the tableau (above the
\* triangle of A included) ends lines 112-121 in a ZeroDivisionError, with
\* neither a "Butcher array" line nor a "Divisor" line.  (Its second half,
\* that lcm faults on any zero argument, is the first conjunct of the
\* amended statement with LcmFaults replaced by "some argument is 0".)
C6_AnyZeroDenominatorFaults ==
    (Ran /\ ~AllDenominatorsNonZero) =>
        /\ state = "Aborted" /\ raised = "ZeroDivisionError"
        /\ divisorLine = <<>>

\* the first argument is zero, or two or more arguments are
LcmFaults(numbers) ==
    \/ (Len(numbers) > 0 /\ numbers[1] = 0)
    \/ \E k, m \in 1 .. Len(numbers) : k < m /\ numbers[k] = 0 /\ numbers[m] = 0

\* C6 as amended: lines 112-121 end in a ZeroDivisionError exactly if a
\* fraction of the emitted region (A[i][j] with j <= i, b, c) has the
\* denominator 0 or lcm faults on the denominators; lcm faults exactly if
\* its first argument is 0 or two or more of its arguments are 0, and
\* returns 0 when a single argument other than the first is 0.  A fault leaves no "Divisor"
\* line; a tableau whose zero denominators are all above the triangle and
\* do not make lcm fault is emitted as zeros with "Divisor: 0".
C6_ZeroInEmittedRegionFaults ==
    Ran =>
        LET dens == Denominators(A, b, c)
            zeroEmitted == \E k \in 1 .. Len(ExpectedOrder) : ExpectedOrder[k][2] = 0
        IN  /\ lcm(dens).fault <=> LcmFaults(dens)
            /\ (~AllDenominatorsNonZero /\ ~lcm(dens).fault) => lcm(dens).val = 0
            /\ state = "Aborted" <=> (zeroEmitted \/ LcmFaults(dens))
            /\ state = "Aborted" => divisorLine = <<>>
            /\ (state = "Done" /\ ~AllDenominatorsNonZero) =>
                  /\ divisorLine = <<0>>
                  /\ \A k \in 1 .. Len(emitted) : emitted[k] = 0

\* a two-stage tableau with a zero denominator above the triangle, at
\* A[1][2], was emitted to the end
C6_Witness ==
    /\ state = "Done" /\ s = 2
    /\ A[1][2][2] = 0
    /\ divisorLine = <<0>>

MidpointA == parseA(2, <<Tok1(0), Tok1(0), Tok2(1, 2), Tok1(0)>>).val
MidpointB == parseB(2, <<Tok1(0), Tok1(1)>>).val
MidpointC == parseC(2, <<Tok1(0), Tok2(1, 2)>>).val

\* C8 as claimed: the midpoint method.  With s = 2, A = [[0,0],[1/2,0]],
\* b = [0,1] and c = [0,1/2] accepted, lines 112-121 run to the end, print
\* the integers 0, 1, 0, 2, 0, 1 (row 2 of A giving [1]) and the divisor 2.
C8_MidpointAsClaimed ==
    (s = 2 /\ A = MidpointA /\ b = MidpointB /\ c = MidpointC
       /\ state \in {"Done", "Aborted"}) =>
        /\ state = "Done"
        /\ emitted = <<0, 1, 0, 2, 0, 1>>
        /\ divisorLine = <<2>>

\* C8 as amended: with the midpoint tableau accepted, lines 112-121 run to
\* the end, print the integers 0, 1, 0, 0, 2, 0, 1 (row 1 of A giving [0],
\* row 2 giving [1, 0], then b giving [0, 2], then c giving [0, 1]) and the
\* divisor 2.
C8_Midpoint ==
    (s = 2 /\ A = MidpointA /\ b = MidpointB /\ c = MidpointC
       /\ state \in {"Done", "Aborted"}) =>
        /\ state = "Done"
        /\ emitted = <<0, 1, 0, 0, 2, 0, 1>>
        /\ divisorLine = <<2>>

\* the midpoint tableau has been emitted
C8_Witness ==
    /\ state = "Done" /\ s = 2
    /\ A = <<<< <<0, 1>>, <<0, 1>> >>, << <<1, 2>>, <<0, 1>> >>>>
    /\ b = << <<0, 1>>, <<1, 1>> >>
    /\ c = << <<0, 1>>, <<1, 2>> >>

\* C10: only well-shaped tableaus reach emission.  Whenever line 112 has
\* been reached, s >= 1, A is s rows of s fractions each, and b and c are s
\* fractions each; a session that accepted s <= 0 at the first prompt is
\* never there.
C10_WellShapedAtEmit ==
    (state = "ScaleEmit" \/ Ran) =>
        /\ s >= 1
        /\ Len(A) = s
        /\ \A i \in 1 .. Len(A) : Len(A[i]) = s
        /\ Len(b) = s
        /\ Len(c) = s

\* a two-stage tableau stands before line 112
C10_Witness ==
    /\ state = "ScaleEmit" /\ s = 2
    /\ Len(A) = 2 /\ Len(b) = 2 /\ Len(c) = 2

\* the state a prompt leads to when its input is accepted
AfterAccept(st) ==
    CASE st = "AwaitStageCount" -> "AwaitMatrixA"
      [] st = "AwaitMatrixA" -> "AwaitVectorB"
      [] st = "AwaitVectorB" -> "AwaitVectorC"
      [] st = "AwaitVectorC" -> "ScaleEmit"
      [] OTHER -> st

\* a step taken at a prompt: the input is accepted, or it is reported and
\* the session stays at the prompt
AcceptedOrReported ==
    (state \in AwaitStates) =>
        \/ (state' = AfterAccept(state) /\ lastPrinted' = "" /\ raised' = "")
        \/ (state' = state /\ lastPrinted' # "" /\ raised' = "")

\* C5: no abort on bad input.  In each of the four Await states, an input
\* is either accepted (the session moves on, nothing is reported) or
\* rejected, and then the error is reported and the session stays in the
\* same state; no input ends the session or lets an exception escape.
C5_NoAbortOnBadInput == [][AcceptedOrReported]_vars

\* all the ways to reorder a tuple
Reorderings(numbers) ==
    {[k \in 1 .. Len(numbers) |-> numbers[p[k]]] :
        p \in {q \in [1 .. Len(numbers) -> 1 .. Len(numbers)] :
                  \A i, j \in 1 .. Len(numbers) : q[i] = q[j] => i = j}}

\* C3: gcd is order-independent.  gcd of any reordering of the arguments
\* (any signs, zero included) is the value gcd returned, and for three
\* arguments gcd(gcd(x, y), z) and gcd(x, gcd(y, z)) are that value too.
C3_GcdOrderIndependent ==
    gcdOut # <<>> =>
        /\ \A r \in Reorderings(args) : gcd(r) = gcdOut[1]
        /\ Len(args) = 3 =>
              /\ gcd(<<gcd(<<args[1], args[2]>>), args[3]>>) = gcdOut[1]
              /\ gcd(<<args[1], gcd(<<args[2], args[3]>>)>>) = gcdOut[1]

\* C2: the product identity.  For non-zero a and b of either sign,
\* lcm(a, b) * gcd(a, b) == abs(a * b).
C2_LcmGcdProduct ==
    (Len(args) = 2 /\ gcdOut # <<>> /\ lcmOut # <<>>
       /\ args[1] # 0 /\ args[2] # 0) =>
        /\ ~lcmOut[1].fault
        /\ lcmOut[1].val * gcdOut[1] = Abs(args[1] * args[2])

\* every token of the text is what parseFraction accepts
WellFormed(t) == \A k \in 1 .. Len(t) : parseFraction(t[k]).ok

\* C9: shape enforcement.  On a text whose tokens are all well-formed
\* fractions, parseA raises ParseError exactly if the number of tokens is
\* not numStages * numStages, parseB and parseC exactly if it is not
\* numStages; a call that raises returns nothing, and one that does not
\* returns the fractions of the text (parseA: as its rows).
C9_ShapeEnforcement ==
    (parseOut # <<>> /\ WellFormed(text)) =>
        LET fn == parseOut[1].fn
            res == parseOut[1].res
            required == IF fn = "parseA" THEN numStages * numStages ELSE numStages
        IN  /\ ~res.ok <=> Len(text) # required
            /\ ~res.ok => (res.val = <<>> /\ res.error \in {MsgShapeA, MsgCountB, MsgCountC})
            /\ (res.ok /\ fn # "parseA") =>
                  res.val = [k \in 1 .. Len(text) |-> parseFraction(text[k]).val]
            /\ (res.ok /\ fn = "parseA" /\ numStages > 0) =>
                  /\ Len(res.val) = numStages
                  /\ \A i \in 1 .. numStages : Len(res.val[i]) = numStages

\* parseA has raised ParseError on four well-formed tokens, for one stage
C9_Witness ==
    /\ parseOut # <<>> /\ WellFormed(text)
    /\ parseOut[1].fn = "parseA" /\ ~parseOut[1].res.ok
    /\ Len(text) = 4 /\ numStages = 1

====
